---- MODULE Spec2Model ----
(***************************************************************************)
(* The request-batching scheduler of the inference node, in its two        *)
(* programs: inference_instruction.py and inference_chat.py.  One HTTP     *)
(* handler thread per request, one batch worker thread, one generate       *)
(* invocation at a time (a pool thread in inference_instruction, the       *)
(* worker itself in inference_chat), and a clock that ticks in time units. *)
(***************************************************************************)
EXTENDS Integers, Sequences, FiniteSets, TLC

\* ---------------------------------------------------------------- bounds
\* Number of HTTP requests a run submits (each request id is used once).
NumReqs == 2
\* How far past a deadline a clock is still counted before it saturates.
MaxLate == 1

\* ------------------------------------------------------- program constants
INFER_TIMEOUT == 5
batch_time_limit == 2
ChatGetTimeout == 1
GenerateTimeout == 30
\* max_retries and the time.sleep(5) after a failed registration attempt.
max_retries == 5
RetryBackoff == 5

Reqs == 1..NumReqs

Min(a, b) == IF a <= b THEN a ELSE b

\* The text of a request, as a sequence of words; request r sends r words, so
\* that two requests never carry texts of the same length.
TextOf(r) == [k \in 1..r |-> "w"]

\* A request body is the value of data.get("input_text"): <<>> when the key is
\* missing (None), <<t>> when it holds the text t, which may be empty.
Bodies(r) == { <<>>, << <<>> >>, << TextOf(r) >> }

\* The test as it would be if only a missing key were refused.
NotInputText_missing_only(body) == body = <<>>

\* `not input_text`: None and the empty string are both falsy.
NotInputText(body) == body = <<>> \/ body[1] = <<>>

VARIABLES
  variant,            \* which program runs: "instruction" or "chat"
  boot,               \* where the main thread is in the module's top level
  attempt,            \* the loop variable of the registration retry loop
  sleep_left,         \* time left of the time.sleep after a failed attempt
  request_queue,      \* queue.Queue(): request ids, oldest first
  inference_lock,     \* threading.Lock(): TRUE while held
  hpc,                \* per request: where its HTTP handler is
  data,               \* per request: the input_text it carries
  flag,               \* per request: the Event's internal flag
  response,           \* per request: <<>> (None / absent) or <<text>>
  num_input_tokens,   \* per request
  num_output_tokens,  \* per request
  set_calls,          \* per request: how many times set() was called
  response_writes,    \* per request: how many times response was assigned
  reply,              \* per request: the HTTP response the handler returned
  pc,                 \* where the batch worker thread is ("unstarted" before start())
  events,             \* worker local: the events collected this cycle
  elapsed,            \* time.time() - start_time, saturating
  get_left,           \* time left of the blocking request_queue.get
  inputs,             \* worker local: tokenized prompts
  gen,                \* the generate invocation: idle/running/returned/raised
  gen_active,         \* number of generate invocations in progress
  gclock,             \* time since generate was submitted, saturating
  timed_out,          \* future.result raised TimeoutError in this cycle
  responses,          \* worker local: decoded outputs
  idx,                \* worker local: position in the distribution loops
  failed,             \* an exception was raised in the current cycle
  dequeued,           \* every request id the worker ever took off the queue
  empty_cache_calls   \* torch.cuda.empty_cache() calls since the last dispatch

vars == << variant, boot, attempt, sleep_left, request_queue, inference_lock, hpc, data, flag, response,
           num_input_tokens, num_output_tokens, set_calls, response_writes,
           reply, pc, events, elapsed, get_left, inputs, gen, gen_active,
           gclock, timed_out, responses, idx, failed, dequeued,
           empty_cache_calls >>

startupVars == << boot, attempt, sleep_left >>
handlerVars == << hpc, data, reply >>
eventVars == << flag, response, num_input_tokens, num_output_tokens,
                set_calls, response_writes >>
workerVars == << pc, events, elapsed, get_left, inputs, timed_out, responses,
                 idx, failed, dequeued, empty_cache_calls, inference_lock >>
genVars == << gen, gen_active, gclock >>

\* batch and events are appended together: batch[k] is the text of events[k].
batch == [k \in 1..Len(events) |-> data[events[k]]]

NoReply == [status |-> 0, generated_text |-> <<>>, num_output_tokens |-> 0,
            num_input_tokens |-> 0, error |-> ""]

Init ==
  /\ variant \in {"instruction", "chat"}
  /\ boot = "register"
  /\ attempt = 0
  /\ sleep_left = 0
  /\ request_queue = <<>>
  /\ inference_lock = FALSE
  /\ hpc = [r \in Reqs |-> "new"]
  /\ data = [r \in Reqs |-> <<>>]
  /\ flag = [r \in Reqs |-> FALSE]
  /\ response = [r \in Reqs |-> <<>>]
  /\ num_input_tokens = [r \in Reqs |-> 0]
  /\ num_output_tokens = [r \in Reqs |-> 0]
  /\ set_calls = [r \in Reqs |-> 0]
  /\ response_writes = [r \in Reqs |-> 0]
  /\ reply = [r \in Reqs |-> NoReply]
  /\ pc = "unstarted"
  /\ events = <<>>
  /\ elapsed = 0
  /\ get_left = 0
  /\ inputs = <<>>
  /\ gen = "idle"
  /\ gen_active = 0
  /\ gclock = 0
  /\ timed_out = FALSE
  /\ responses = <<>>
  /\ idx = 0
  /\ failed = FALSE
  /\ dequeued = {}
  /\ empty_cache_calls = 0

\* ------------------------------------------------- tokenizer and model
\* alpaca_prompt.format(text, "") of inference_instruction.
InstrPrompt(text) == <<"Below is an instruction", "### Input:\n">> \o text
                       \o <<"### Response:\n">>

\* alpaca_prompt.format("", text, "") of inference_chat.
ChatPrompt(text) == <<"[agent name] is", "### Instruction:\n", "### Input:\n">>
                      \o text \o <<"### Response:\n">>

SpecialTokens == {"<bos>", "<pad>", "<eos>"}

\* tokenizer(text).input_ids[0]: the words of the text after a BOS token.
Tokenize(text) == <<"<bos>">> \o text

\* len(tokenizer(text, return_tensors="pt").input_ids[0])
TokenCount(text) == Len(Tokenize(text))

RECURSIVE Pad(_, _)
Pad(row, n) == IF Len(row) >= n THEN row ELSE Pad(<<"<pad>">> \o row, n)

RECURSIVE MaxLen(_)
MaxLen(rows) == IF rows = <<>> THEN 0
                ELSE LET m == MaxLen(Tail(rows))
                     IN IF Len(Head(rows)) > m THEN Len(Head(rows)) ELSE m

\* tokenizer([...], padding=True): one row per prompt, padded to the longest.
TokenizeBatch(prompts) ==
  LET rows == [k \in 1..Len(prompts) |-> Tokenize(prompts[k])]
  IN [k \in 1..Len(rows) |-> Pad(rows[k], MaxLen(rows))]

\* model.generate: one output row per input row, the row followed by the new
\* tokens (here the model answers with the last word before the response
\* marker, then "!").
Completion(row) == << row[Len(row) - 1], "!", "<eos>" >>
Generate(rows) == [k \in 1..Len(rows) |-> rows[k] \o Completion(rows[k])]

IsWord(tok) == tok \notin SpecialTokens

\* tokenizer.decode(out, skip_special_tokens=True)
Decode(row) == SelectSeq(row, IsWord)

RECURSIVE LastMarker(_, _)
\* The position of the last "### Response:\n" among the first n words, or 0.
LastMarker(text, n) == IF n = 0 THEN 0
                       ELSE IF text[n] = "### Response:\n" THEN n
                       ELSE LastMarker(text, n - 1)

\* response.split("### Response:\n")[-1].strip()
ExtractResponse(text) == SubSeq(text, LastMarker(text, Len(text)) + 1, Len(text))

ErrorText == <<"Error occurred during processing">>

\* ------------------------------------------------------- HTTP handlers
\* inference() of inference_instruction up to the wait: validate, create the
\* InferenceEvent, put it on the queue.
Instr_inference(r, body) ==
  /\ variant = "instruction"
  /\ boot = "serving"
  /\ hpc[r] = "new"
  /\ IF NotInputText(body)
       THEN /\ reply' = [reply EXCEPT ![r] = [NoReply EXCEPT !.status = 400,
                                     !.error = "Please provide input_text"]]
            /\ hpc' = [hpc EXCEPT ![r] = "done"]
            /\ UNCHANGED << data, request_queue >>
       ELSE /\ data' = [data EXCEPT ![r] = body[1]]
            /\ request_queue' = Append(request_queue, r)
            /\ hpc' = [hpc EXCEPT ![r] = "wait"]
            /\ UNCHANGED reply
  /\ UNCHANGED << startupVars, variant, eventVars, workerVars, genVars >>

\* inference_event.event.wait(timeout=60) returns True: the flag is set.
Instr_wait_signaled(r) ==
  /\ variant = "instruction"
  /\ hpc[r] = "wait"
  /\ flag[r]
  /\ hpc' = [hpc EXCEPT ![r] = "render"]
  /\ UNCHANGED << startupVars, variant, request_queue, data, reply, eventVars, workerVars,
                  genVars >>

\* Instr_wait_timeout as it would be if giving up withdrew the request: the
\* handler takes its request back off the queue before it answers 408.
Instr_wait_timeout_withdraws(r) ==
  /\ variant = "instruction"
  /\ hpc[r] = "wait"
  /\ ~flag[r]
  /\ request_queue' = SelectSeq(request_queue, LAMBDA q : q # r)
  /\ reply' = [reply EXCEPT ![r] = [NoReply EXCEPT !.status = 408,
                                    !.error = "Inference timeout"]]
  /\ hpc' = [hpc EXCEPT ![r] = "done"]
  /\ UNCHANGED << startupVars, variant, data, eventVars, workerVars, genVars >>

\* inference_event.event.wait(timeout=60) returns False: 60 units went by
\* with the flag still clear; the handler answers 408.  The handler keeps no
\* clock of its own here: the worker may spend any time at any statement, so
\* the 60 units can have gone by in every state in which the flag is clear.
Instr_wait_timeout(r) ==
  /\ variant = "instruction"
  /\ hpc[r] = "wait"
  /\ ~flag[r]
  /\ reply' = [reply EXCEPT ![r] = [NoReply EXCEPT !.status = 408,
                                    !.error = "Inference timeout"]]
  /\ hpc' = [hpc EXCEPT ![r] = "done"]
  /\ UNCHANGED << startupVars, variant, request_queue, data, eventVars, workerVars, genVars >>

\* response = <event>.response.split(response_start)[-1].strip()
\* return jsonify({"generated_text": response, "num_output_tokens": ...,
\*                 "num_input_tokens": ...})
\* A response that is still None has no split: the handler fails with 500.
Render(r) ==
  /\ hpc[r] = "render"
  /\ reply' = [reply EXCEPT ![r] =
                 IF response[r] = <<>>
                   THEN [NoReply EXCEPT !.status = 500]
                   ELSE [NoReply EXCEPT
                           !.status = 200,
                           !.generated_text = ExtractResponse(response[r][1]),
                           !.num_output_tokens = num_output_tokens[r],
                           !.num_input_tokens = num_input_tokens[r]]]
  /\ hpc' = [hpc EXCEPT ![r] = "done"]
  /\ UNCHANGED << startupVars, variant, request_queue, data, eventVars, workerVars, genVars >>

Instr_render(r) == variant = "instruction" /\ Render(r)

\* inference() of inference_chat up to the wait.
Chat_inference(r, body) ==
  /\ variant = "chat"
  /\ boot = "serving"
  /\ hpc[r] = "new"
  /\ IF NotInputText(body)
       THEN /\ reply' = [reply EXCEPT ![r] = [NoReply EXCEPT !.status = 400,
                                     !.error = "Please provide input_text"]]
            /\ hpc' = [hpc EXCEPT ![r] = "done"]
            /\ UNCHANGED << data, request_queue >>
       ELSE /\ data' = [data EXCEPT ![r] = body[1]]
            /\ request_queue' = Append(request_queue, r)
            /\ hpc' = [hpc EXCEPT ![r] = "wait"]
            /\ UNCHANGED reply
  /\ UNCHANGED << startupVars, variant, eventVars, workerVars, genVars >>

\* event.wait() returns: there is no timeout, only the flag ends the wait.
Chat_wait_signaled(r) ==
  /\ variant = "chat"
  /\ hpc[r] = "wait"
  /\ flag[r]
  /\ hpc' = [hpc EXCEPT ![r] = "render"]
  /\ UNCHANGED << startupVars, variant, request_queue, data, reply, eventVars, workerVars,
                  genVars >>

Chat_render(r) == variant = "chat" /\ Render(r)

\* ----------------------------------------- batch worker, inference_instruction
\* req_data = request_queue.get(...) returned an item: both appends.
Collected(r) ==
  /\ request_queue' = Tail(request_queue)
  /\ events' = Append(events, r)
  /\ dequeued' = dequeued \cup {r}

\* Raised as it would be without the except clause around the cycle: the
\* exception leaves batch_inference and the worker thread ends.
Raised_uncaught ==
  /\ failed' = TRUE
  /\ idx' = 1
  /\ pc' = "dead"

\* The exception leaves the try body (and, in inference_instruction, the
\* `with inference_lock` block inside it) and reaches the except clause.
Raised ==
  /\ failed' = TRUE
  /\ idx' = 1
  /\ pc' = "except"

\* batch = []; events = []; start_time = time.time()
Instr_cycle ==
  /\ variant = "instruction"
  /\ pc = "cycle"
  /\ events' = <<>>
  /\ elapsed' = 0
  /\ failed' = FALSE
  /\ timed_out' = FALSE
  /\ inputs' = <<>>
  /\ responses' = <<>>
  /\ idx' = 0
  /\ pc' = "loop_test"
  /\ UNCHANGED << startupVars, variant, request_queue, handlerVars, eventVars, genVars,
                  get_left, dequeued, empty_cache_calls, inference_lock >>

\* while (time.time() - start_time) < INFER_TIMEOUT:
Instr_loop_test ==
  /\ variant = "instruction"
  /\ pc = "loop_test"
  /\ pc' = IF elapsed < INFER_TIMEOUT THEN "get_call" ELSE "if_batch"
  /\ UNCHANGED << startupVars, variant, request_queue, handlerVars, eventVars, genVars,
                  events, elapsed, get_left, inputs, timed_out, responses, idx,
                  failed, dequeued, empty_cache_calls, inference_lock >>

\* request_queue.get(timeout=INFER_TIMEOUT - (time.time() - start_time)):
\* time.time() is read again; Queue.get raises ValueError on a negative
\* timeout, which nothing catches, so the thread ends.
Instr_get_call ==
  /\ variant = "instruction"
  /\ pc = "get_call"
  /\ LET timeout == INFER_TIMEOUT - elapsed
     IN IF timeout < 0
          THEN /\ pc' = "dead"
               /\ UNCHANGED << request_queue, events, dequeued, get_left >>
          ELSE IF request_queue # <<>>
          THEN /\ Collected(Head(request_queue))
               /\ pc' = "loop_test"
               /\ UNCHANGED get_left
          ELSE /\ pc' = "get_wait"
               /\ get_left' = timeout
               /\ UNCHANGED << request_queue, events, dequeued >>
  /\ UNCHANGED << startupVars, variant, handlerVars, eventVars, genVars, elapsed, inputs,
                  timed_out, responses, idx, failed, empty_cache_calls,
                  inference_lock >>

\* The blocked get is woken by a put.
Instr_get_item ==
  /\ variant = "instruction"
  /\ pc = "get_wait"
  /\ request_queue # <<>>
  /\ Collected(Head(request_queue))
  /\ pc' = "loop_test"
  /\ get_left' = 0
  /\ UNCHANGED << startupVars, variant, handlerVars, eventVars, genVars, elapsed, inputs,
                  timed_out, responses, idx, failed, empty_cache_calls,
                  inference_lock >>

\* except queue.Empty: break
Instr_get_empty ==
  /\ variant = "instruction"
  /\ pc = "get_wait"
  /\ request_queue = <<>>
  /\ get_left = 0
  /\ pc' = "if_batch"
  /\ UNCHANGED << startupVars, variant, request_queue, handlerVars, eventVars, genVars,
                  events, elapsed, get_left, inputs, timed_out, responses, idx,
                  failed, dequeued, empty_cache_calls, inference_lock >>

\* if batch: try: with inference_lock:
Instr_if_batch ==
  /\ variant = "instruction"
  /\ pc = "if_batch"
  /\ IF batch # <<>>
       THEN /\ ~inference_lock
            /\ inference_lock' = TRUE
            /\ empty_cache_calls' = 0
            /\ pc' = "tokenize"
       ELSE /\ pc' = "cycle"
            /\ UNCHANGED << inference_lock, empty_cache_calls >>
  /\ elapsed' = 0
  /\ UNCHANGED << startupVars, variant, request_queue, handlerVars, eventVars, genVars,
                  events, get_left, inputs, timed_out, responses, idx, failed,
                  dequeued >>

\* inputs = tokenizer([alpaca_prompt.format(text, "") for text in batch], ...)
Instr_tokenize ==
  /\ variant = "instruction"
  /\ pc = "tokenize"
  /\ \/ /\ inputs' = TokenizeBatch([k \in 1..Len(batch) |-> InstrPrompt(batch[k])])
        /\ pc' = "submit"
        /\ UNCHANGED << failed, idx, inference_lock >>
     \/ /\ Raised
        /\ inference_lock' = FALSE
        /\ UNCHANGED inputs
  /\ UNCHANGED << startupVars, variant, request_queue, handlerVars, eventVars, genVars,
                  events, elapsed, get_left, timed_out, responses, dequeued,
                  empty_cache_calls >>

\* future = executor.submit(model.generate, **inputs, ...): a pool thread
\* starts running generate.
Instr_submit ==
  /\ variant = "instruction"
  /\ pc = "submit"
  /\ gen' = "running"
  /\ gen_active' = gen_active + 1
  /\ gclock' = 0
  /\ pc' = "result"
  /\ UNCHANGED << startupVars, variant, request_queue, handlerVars, eventVars, events,
                  elapsed, get_left, inputs, timed_out, responses, idx, failed,
                  dequeued, empty_cache_calls, inference_lock >>

\* model.generate returns its output rows.
Generate_returns ==
  /\ gen = "running"
  /\ gen' = "returned"
  /\ gen_active' = gen_active - 1
  /\ UNCHANGED << startupVars, variant, request_queue, handlerVars, eventVars, workerVars,
                  gclock >>

\* model.generate raises.
Generate_raises ==
  /\ gen = "running"
  /\ gen' = "raised"
  /\ gen_active' = gen_active - 1
  /\ UNCHANGED << startupVars, variant, request_queue, handlerVars, eventVars, workerVars,
                  gclock >>

\* outputs = future.result(timeout=30): the result, the exception generate
\* raised, or TimeoutError once 30 units went by with generate still running.
Instr_result ==
  /\ variant = "instruction"
  /\ pc = "result"
  /\ \/ /\ gen = "returned"
        /\ gen' = "idle"
        /\ pc' = "decode"
        /\ UNCHANGED << failed, idx, inference_lock, timed_out >>
     \/ /\ gen = "raised"
        /\ gen' = "idle"
        /\ Raised
        /\ inference_lock' = FALSE
        /\ UNCHANGED timed_out
     \/ /\ gen = "running"
        /\ gclock >= GenerateTimeout
        /\ timed_out' = TRUE
        /\ pc' = "shutdown"
        /\ UNCHANGED << gen, failed, idx, inference_lock >>
  /\ gclock' = 0
  /\ UNCHANGED << startupVars, variant, request_queue, handlerVars, eventVars, gen_active,
                  events, elapsed, get_left, inputs, responses, dequeued,
                  empty_cache_calls >>

\* Instr_shutdown as it would be with shutdown(wait=False): the exception
\* leaves the with blocks while the pool thread is still inside generate.
Instr_shutdown_nowait ==
  /\ variant = "instruction"
  /\ pc = "shutdown"
  /\ gen' = IF gen = "running" THEN gen ELSE "idle"
  /\ Raised
  /\ inference_lock' = FALSE
  /\ UNCHANGED << startupVars, variant, request_queue, handlerVars, eventVars, gen_active,
                  gclock, events, elapsed, get_left, inputs, timed_out,
                  responses, dequeued, empty_cache_calls >>

\* TimeoutError leaves `with concurrent.futures.ThreadPoolExecutor() as
\* executor`: __exit__ calls shutdown(wait=True), which joins the pool thread;
\* only then does the exception leave `with inference_lock`.
Instr_shutdown ==
  /\ variant = "instruction"
  /\ pc = "shutdown"
  /\ gen # "running"
  /\ gen' = "idle"
  /\ Raised
  /\ inference_lock' = FALSE
  /\ UNCHANGED << startupVars, variant, request_queue, handlerVars, eventVars, gen_active,
                  gclock, events, elapsed, get_left, inputs, timed_out,
                  responses, dequeued, empty_cache_calls >>

\* responses = [tokenizer.decode(out, skip_special_tokens=True) for out in outputs]
Instr_decode ==
  /\ variant = "instruction"
  /\ pc = "decode"
  /\ \/ /\ responses' = [k \in 1..Len(inputs) |-> Decode(Generate(inputs)[k])]
        /\ idx' = 1
        /\ pc' = "d_response"
        /\ UNCHANGED << failed, inference_lock >>
     \/ /\ Raised
        /\ inference_lock' = FALSE
        /\ UNCHANGED responses
  /\ UNCHANGED << startupVars, variant, request_queue, handlerVars, eventVars, genVars,
                  events, elapsed, get_left, inputs, timed_out, dequeued,
                  empty_cache_calls >>

\* The body of `for response, event in zip(responses, events)`, one
\* statement at a time; member is the event the loop is at.
member == events[idx]

\* WriteResponse as it would be with the rows paired to the members in the
\* opposite order.
WriteResponse_reversed ==
  /\ response' = [response EXCEPT ![member] = <<responses[Len(events) + 1 - idx]>>]
  /\ response_writes' = [response_writes EXCEPT ![member] = @ + 1]
  /\ pc' = "d_in"
  /\ UNCHANGED << flag, num_input_tokens, num_output_tokens, set_calls, idx,
                  failed, inference_lock >>

\* The token count of a whole batch of texts.
RECURSIVE TokenCountAll(_)
TokenCountAll(texts) ==
  IF texts = <<>> THEN 0 ELSE TokenCount(Head(texts)) + TokenCountAll(Tail(texts))

\* WriteInputTokens as it would be if the count were taken from the whole
\* batch instead of the member's own text.
WriteInputTokens_aggregate ==
  /\ num_input_tokens' = [num_input_tokens EXCEPT ![member] = TokenCountAll(batch)]
  /\ pc' = "d_out"
  /\ UNCHANGED << flag, response, num_output_tokens, set_calls,
                  response_writes, idx, failed, inference_lock >>

\* event.response = response
WriteResponse ==
  /\ response' = [response EXCEPT ![member] = <<responses[idx]>>]
  /\ response_writes' = [response_writes EXCEPT ![member] = @ + 1]
  /\ pc' = "d_in"
  /\ UNCHANGED << flag, num_input_tokens, num_output_tokens, set_calls, idx,
                  failed, inference_lock >>

\* event.num_input_tokens = len(tokenizer(<input text>, ...).input_ids[0])
WriteInputTokens ==
  /\ num_input_tokens' = [num_input_tokens EXCEPT ![member] = TokenCount(batch[idx])]
  /\ pc' = "d_out"
  /\ UNCHANGED << flag, response, num_output_tokens, set_calls,
                  response_writes, idx, failed, inference_lock >>

\* event.num_output_tokens = len(tokenizer(response, ...).input_ids[0])
WriteOutputTokens ==
  /\ num_output_tokens' = [num_output_tokens EXCEPT ![member] = TokenCount(responses[idx])]
  /\ pc' = "d_set"
  /\ UNCHANGED << flag, response, num_input_tokens, set_calls,
                  response_writes, idx, failed, inference_lock >>

\* threading.Event.set()
SetEvent(r) ==
  /\ flag' = [flag EXCEPT ![r] = TRUE]
  /\ set_calls' = [set_calls EXCEPT ![r] = @ + 1]

\* inference_event.response = response
Instr_d_response ==
  /\ variant = "instruction"
  /\ pc = "d_response"
  /\ WriteResponse
  /\ UNCHANGED << startupVars, variant, request_queue, handlerVars, genVars, events, elapsed,
                  get_left, inputs, timed_out, responses, dequeued,
                  empty_cache_calls >>

\* inference_event.num_input_tokens = len(tokenizer(inference_event.data, ...))
Instr_d_in ==
  /\ variant = "instruction"
  /\ pc = "d_in"
  /\ \/ WriteInputTokens
     \/ /\ Raised
        /\ inference_lock' = FALSE
        /\ UNCHANGED eventVars
  /\ UNCHANGED << startupVars, variant, request_queue, handlerVars, genVars, events, elapsed,
                  get_left, inputs, timed_out, responses, dequeued,
                  empty_cache_calls >>

\* inference_event.num_output_tokens = len(tokenizer(response, ...))
Instr_d_out ==
  /\ variant = "instruction"
  /\ pc = "d_out"
  /\ \/ WriteOutputTokens
     \/ /\ Raised
        /\ inference_lock' = FALSE
        /\ UNCHANGED eventVars
  /\ UNCHANGED << startupVars, variant, request_queue, handlerVars, genVars, events, elapsed,
                  get_left, inputs, timed_out, responses, dequeued,
                  empty_cache_calls >>

\* inference_event.event.set(); after the last member the with block and the
\* try body end normally.
Instr_d_set ==
  /\ variant = "instruction"
  /\ pc = "d_set"
  /\ SetEvent(member)
  /\ IF idx < Len(events)
       THEN /\ idx' = idx + 1
            /\ pc' = "d_response"
            /\ UNCHANGED inference_lock
       ELSE /\ idx' = 0
            /\ pc' = "finally"
            /\ inference_lock' = FALSE
  /\ UNCHANGED << startupVars, variant, request_queue, handlerVars, genVars, response,
                  num_input_tokens, num_output_tokens, response_writes, events,
                  elapsed, get_left, inputs, timed_out, responses, failed,
                  dequeued, empty_cache_calls >>

\* except Exception as e: for event in events:
\*     event.response = "Error occurred during processing"; event.event.set()
Instr_except ==
  /\ variant = "instruction"
  /\ pc = "except"
  /\ IF idx <= Len(events)
       THEN /\ response' = [response EXCEPT ![member] = <<ErrorText>>]
            /\ response_writes' = [response_writes EXCEPT ![member] = @ + 1]
            /\ SetEvent(member)
            /\ idx' = idx + 1
            /\ UNCHANGED pc
       ELSE /\ idx' = 0
            /\ pc' = "finally"
            /\ UNCHANGED << flag, set_calls, response, response_writes >>
  /\ UNCHANGED << startupVars, variant, request_queue, handlerVars, genVars,
                  num_input_tokens, num_output_tokens, events, elapsed, get_left,
                  inputs, timed_out, responses, failed, dequeued,
                  empty_cache_calls, inference_lock >>

\* finally: torch.cuda.empty_cache()
Instr_finally ==
  /\ variant = "instruction"
  /\ pc = "finally"
  /\ empty_cache_calls' = empty_cache_calls + 1
  /\ pc' = "cycle"
  /\ UNCHANGED << startupVars, variant, request_queue, handlerVars, eventVars, genVars,
                  events, elapsed, get_left, inputs, timed_out, responses, idx,
                  failed, dequeued, inference_lock >>

\* ------------------------------------------------ batch worker, inference_chat
\* with inference_lock: batch = []; events = []; start_time = time.time()
Chat_cycle ==
  /\ variant = "chat"
  /\ pc = "cycle"
  /\ ~inference_lock
  /\ inference_lock' = TRUE
  /\ events' = <<>>
  /\ elapsed' = 0
  /\ failed' = FALSE
  /\ inputs' = <<>>
  /\ responses' = <<>>
  /\ idx' = 0
  /\ pc' = "loop_test"
  /\ UNCHANGED << startupVars, variant, request_queue, handlerVars, eventVars, genVars,
                  get_left, timed_out, dequeued, empty_cache_calls >>

\* while time.time() - start_time < batch_time_limit:
Chat_loop_test ==
  /\ variant = "chat"
  /\ pc = "loop_test"
  /\ pc' = IF elapsed < batch_time_limit THEN "get_call" ELSE "if_batch"
  /\ UNCHANGED << startupVars, variant, request_queue, handlerVars, eventVars, genVars,
                  events, elapsed, get_left, inputs, timed_out, responses, idx,
                  failed, dequeued, empty_cache_calls, inference_lock >>

\* req_data = request_queue.get(timeout=1)
Chat_get_call ==
  /\ variant = "chat"
  /\ pc = "get_call"
  /\ IF request_queue # <<>>
       THEN /\ Collected(Head(request_queue))
            /\ pc' = "loop_test"
            /\ UNCHANGED get_left
       ELSE /\ pc' = "get_wait"
            /\ get_left' = ChatGetTimeout
            /\ UNCHANGED << request_queue, events, dequeued >>
  /\ UNCHANGED << startupVars, variant, handlerVars, eventVars, genVars, elapsed, inputs,
                  timed_out, responses, idx, failed, empty_cache_calls,
                  inference_lock >>

\* The blocked get is woken by a put.
Chat_get_item ==
  /\ variant = "chat"
  /\ pc = "get_wait"
  /\ request_queue # <<>>
  /\ Collected(Head(request_queue))
  /\ pc' = "loop_test"
  /\ get_left' = 0
  /\ UNCHANGED << startupVars, variant, handlerVars, eventVars, genVars, elapsed, inputs,
                  timed_out, responses, idx, failed, empty_cache_calls,
                  inference_lock >>

\* except queue.Empty: continue
Chat_get_empty ==
  /\ variant = "chat"
  /\ pc = "get_wait"
  /\ request_queue = <<>>
  /\ get_left = 0
  /\ pc' = "loop_test"
  /\ UNCHANGED << startupVars, variant, request_queue, handlerVars, eventVars, genVars,
                  events, elapsed, get_left, inputs, timed_out, responses, idx,
                  failed, dequeued, empty_cache_calls, inference_lock >>

\* if batch: ... ; otherwise the with block ends and the loop starts over.
Chat_if_batch ==
  /\ variant = "chat"
  /\ pc = "if_batch"
  /\ IF batch # <<>>
       THEN /\ pc' = "tokenize"
            /\ empty_cache_calls' = 0
            /\ UNCHANGED inference_lock
       ELSE /\ pc' = "cycle"
            /\ inference_lock' = FALSE
            /\ UNCHANGED empty_cache_calls
  /\ elapsed' = 0
  /\ UNCHANGED << startupVars, variant, request_queue, handlerVars, eventVars, genVars,
                  events, get_left, inputs, timed_out, responses, idx, failed,
                  dequeued >>

\* inputs = tokenizer([alpaca_prompt.format("", text, "") for text in batch], ...)
Chat_tokenize ==
  /\ variant = "chat"
  /\ pc = "tokenize"
  /\ \/ /\ inputs' = TokenizeBatch([k \in 1..Len(batch) |-> ChatPrompt(batch[k])])
        /\ pc' = "submit"
        /\ UNCHANGED << failed, idx >>
     \/ /\ Raised
        /\ UNCHANGED inputs
  /\ UNCHANGED << startupVars, variant, request_queue, handlerVars, eventVars, genVars,
                  events, elapsed, get_left, timed_out, responses, dequeued,
                  empty_cache_calls, inference_lock >>

\* outputs = model.generate(**inputs, max_new_tokens=64): the call starts.
Chat_generate ==
  /\ variant = "chat"
  /\ pc = "submit"
  /\ gen' = "running"
  /\ gen_active' = gen_active + 1
  /\ pc' = "result"
  /\ UNCHANGED << startupVars, variant, request_queue, handlerVars, eventVars, gclock,
                  events, elapsed, get_left, inputs, timed_out, responses, idx,
                  failed, dequeued, empty_cache_calls, inference_lock >>

\* The call to model.generate ends, with the outputs or with its exception;
\* nothing bounds how long it takes.
Chat_generate_done ==
  /\ variant = "chat"
  /\ pc = "result"
  /\ \/ /\ gen = "returned"
        /\ pc' = "decode"
        /\ UNCHANGED << failed, idx >>
     \/ /\ gen = "raised"
        /\ Raised
  /\ gen' = "idle"
  /\ UNCHANGED << startupVars, variant, request_queue, handlerVars, eventVars, gen_active,
                  gclock, events, elapsed, get_left, inputs, timed_out,
                  responses, dequeued, empty_cache_calls, inference_lock >>

\* responses = [tokenizer.decode(out, skip_special_tokens=True) for out in outputs]
Chat_decode ==
  /\ variant = "chat"
  /\ pc = "decode"
  /\ \/ /\ responses' = [k \in 1..Len(inputs) |-> Decode(Generate(inputs)[k])]
        /\ idx' = 1
        /\ pc' = "d_response"
        /\ UNCHANGED failed
     \/ /\ Raised
        /\ UNCHANGED responses
  /\ UNCHANGED << startupVars, variant, request_queue, handlerVars, eventVars, genVars,
                  events, elapsed, get_left, inputs, timed_out, dequeued,
                  empty_cache_calls, inference_lock >>

\* event.response = response
Chat_d_response ==
  /\ variant = "chat"
  /\ pc = "d_response"
  /\ WriteResponse
  /\ UNCHANGED << startupVars, variant, request_queue, handlerVars, genVars, events, elapsed,
                  get_left, inputs, timed_out, responses, dequeued,
                  empty_cache_calls >>

\* event.num_input_tokens = len(tokenizer(input_text, ...).input_ids[0])
Chat_d_in ==
  /\ variant = "chat"
  /\ pc = "d_in"
  /\ \/ WriteInputTokens
     \/ /\ Raised
        /\ UNCHANGED << eventVars, inference_lock >>
  /\ UNCHANGED << startupVars, variant, request_queue, handlerVars, genVars, events, elapsed,
                  get_left, inputs, timed_out, responses, dequeued,
                  empty_cache_calls >>

\* event.num_output_tokens = len(tokenizer(response, ...).input_ids[0])
Chat_d_out ==
  /\ variant = "chat"
  /\ pc = "d_out"
  /\ \/ WriteOutputTokens
     \/ /\ Raised
        /\ UNCHANGED << eventVars, inference_lock >>
  /\ UNCHANGED << startupVars, variant, request_queue, handlerVars, genVars, events, elapsed,
                  get_left, inputs, timed_out, responses, dequeued,
                  empty_cache_calls >>

\* event.set(); after the last member the try body and the with block end.
Chat_d_set ==
  /\ variant = "chat"
  /\ pc = "d_set"
  /\ SetEvent(member)
  /\ IF idx < Len(events)
       THEN /\ idx' = idx + 1
            /\ pc' = "d_response"
            /\ UNCHANGED inference_lock
       ELSE /\ idx' = 0
            /\ pc' = "cycle"
            /\ inference_lock' = FALSE
  /\ UNCHANGED << startupVars, variant, request_queue, handlerVars, genVars, response,
                  num_input_tokens, num_output_tokens, response_writes, events,
                  elapsed, get_left, inputs, timed_out, responses, failed,
                  dequeued, empty_cache_calls >>

\* except Exception as e: logging.error(...); the with block ends.
Chat_except ==
  /\ variant = "chat"
  /\ pc = "except"
  /\ idx' = 0
  /\ pc' = "cycle"
  /\ inference_lock' = FALSE
  /\ UNCHANGED << startupVars, variant, request_queue, handlerVars, eventVars, genVars,
                  events, elapsed, get_left, inputs, timed_out, responses,
                  failed, dequeued, empty_cache_calls >>

\* ------------------------------------------------------------ the clock
CollectPcs == {"loop_test", "get_call", "get_wait"}
Window == IF variant = "instruction" THEN INFER_TIMEOUT ELSE batch_time_limit

\* One time unit goes by: every running clock of the program moves.
Tick ==
  /\ \/ pc \in CollectPcs /\ elapsed < Window + MaxLate
     \/ pc = "get_wait" /\ get_left > 0
     \/ pc = "result" /\ variant = "instruction" /\ gclock < GenerateTimeout
  /\ elapsed' = IF pc \in CollectPcs THEN Min(elapsed + 1, Window + MaxLate)
                ELSE elapsed
  /\ get_left' = IF pc = "get_wait" /\ get_left > 0 THEN get_left - 1 ELSE get_left
  /\ gclock' = IF pc = "result" /\ variant = "instruction"
               THEN Min(gclock + 1, GenerateTimeout) ELSE gclock
  /\ UNCHANGED << startupVars, variant, request_queue, handlerVars, eventVars, gen,
                  gen_active, pc, events, inputs, timed_out, responses, idx,
                  failed, dequeued, empty_cache_calls, inference_lock >>

\* ---------------------------------------------------------------- startup
\* The module's top level, run by the main thread: registration with retries,
\* then the heartbeat thread, the model, the worker thread and the server.

\* nacos_client.add_naming_instance(...) returns: break. The loop variable is
\* not read after the loop.
Register_ok ==
  /\ boot = "register"
  /\ boot' = "heartbeat"
  /\ attempt' = 0
  /\ UNCHANGED << sleep_left, variant, request_queue, handlerVars, eventVars,
                  workerVars, genVars >>

\* add_naming_instance raises: the error is logged and time.sleep(5) begins.
Register_raises ==
  /\ boot = "register"
  /\ boot' = "sleep"
  /\ sleep_left' = RetryBackoff
  /\ UNCHANGED << attempt, variant, request_queue, handlerVars, eventVars,
                  workerVars, genVars >>

\* One time unit of the sleep goes by.
Sleep_tick ==
  /\ boot = "sleep"
  /\ sleep_left > 0
  /\ sleep_left' = sleep_left - 1
  /\ UNCHANGED << boot, attempt, variant, request_queue, handlerVars,
                  eventVars, workerVars, genVars >>

\* What follows on the exhausted range as it would be without the else clause.
Retry_loop_falls_through ==
  /\ boot = "sleep"
  /\ sleep_left = 0
  /\ attempt' = IF attempt + 1 < max_retries THEN attempt + 1 ELSE 0
  /\ boot' = IF attempt + 1 < max_retries THEN "register" ELSE "heartbeat"
  /\ UNCHANGED << sleep_left, variant, request_queue, handlerVars, eventVars,
                  workerVars, genVars >>

\* time.sleep returns: `for attempt in range(max_retries)` takes the next
\* value, or the range is exhausted and the else clause raises RuntimeError,
\* which ends the process.
Retry_loop ==
  /\ boot = "sleep"
  /\ sleep_left = 0
  /\ attempt' = attempt + 1
  /\ boot' = IF attempt + 1 < max_retries THEN "register" ELSE "raised"
  /\ UNCHANGED << sleep_left, variant, request_queue, handlerVars, eventVars,
                  workerVars, genVars >>

\* heartbeat_thread.start()
Start_heartbeat ==
  /\ boot = "heartbeat"
  /\ boot' = "load"
  /\ UNCHANGED << attempt, sleep_left, variant, request_queue, handlerVars,
                  eventVars, workerVars, genVars >>

HeartbeatStarted == boot \in {"load", "start_worker", "app_run", "serving"}

\* One iteration of send_heartbeat's loop: it touches nothing of the program's
\* own state.
send_heartbeat ==
  /\ HeartbeatStarted
  /\ UNCHANGED vars

\* FastLanguageModel.from_pretrained(...) returns, or raises and ends the
\* process.
Load_model ==
  /\ boot = "load"
  /\ boot' \in {"start_worker", "load_raised"}
  /\ UNCHANGED << attempt, sleep_left, variant, request_queue, handlerVars,
                  eventVars, workerVars, genVars >>

\* threading.Thread(target=batch_inference, daemon=True).start()
Start_worker ==
  /\ boot = "start_worker"
  /\ boot' = "app_run"
  /\ pc' = "cycle"
  /\ UNCHANGED << attempt, sleep_left, variant, request_queue, handlerVars,
                  eventVars, genVars, events, elapsed, get_left, inputs,
                  timed_out, responses, idx, failed, dequeued,
                  empty_cache_calls, inference_lock >>

\* app.run(host='0.0.0.0', port=5000): the server accepts requests.
App_run ==
  /\ boot = "app_run"
  /\ boot' = "serving"
  /\ UNCHANGED << attempt, sleep_left, variant, request_queue, handlerVars,
                  eventVars, workerVars, genVars >>

Startup ==
  \/ Register_ok
  \/ Register_raises
  \/ Sleep_tick
  \/ Retry_loop
  \/ Start_heartbeat
  \/ send_heartbeat
  \/ Load_model
  \/ Start_worker
  \/ App_run

\* ------------------------------------------------------ the specification
Handler ==
  \E r \in Reqs :
    \/ \E body \in Bodies(r) : Instr_inference(r, body)
    \/ Instr_wait_signaled(r)
    \/ Instr_wait_timeout(r)
    \/ Instr_render(r)
    \/ \E body \in Bodies(r) : Chat_inference(r, body)
    \/ Chat_wait_signaled(r)
    \/ Chat_render(r)

InstrWorker ==
  \/ Instr_cycle
  \/ Instr_loop_test
  \/ Instr_get_call
  \/ Instr_get_item
  \/ Instr_get_empty
  \/ Instr_if_batch
  \/ Instr_tokenize
  \/ Instr_submit
  \/ Instr_result
  \/ Instr_shutdown
  \/ Instr_decode
  \/ Instr_d_response
  \/ Instr_d_in
  \/ Instr_d_out
  \/ Instr_d_set
  \/ Instr_except
  \/ Instr_finally

ChatWorker ==
  \/ Chat_cycle
  \/ Chat_loop_test
  \/ Chat_get_call
  \/ Chat_get_item
  \/ Chat_get_empty
  \/ Chat_if_batch
  \/ Chat_tokenize
  \/ Chat_generate
  \/ Chat_generate_done
  \/ Chat_decode
  \/ Chat_d_response
  \/ Chat_d_in
  \/ Chat_d_out
  \/ Chat_d_set
  \/ Chat_except

Model == Generate_returns \/ Generate_raises

Next == Startup \/ Handler \/ InstrWorker \/ ChatWorker \/ Model \/ Tick

Spec == Init /\ [][Next]_vars

\* ------------------------------------------------------------ properties
Members == {events[k] : k \in 1..Len(events)}

\* C1: every request the worker took off the queue is signaled with exactly
\* one outcome; stated where a finite run refutes it: whenever the worker
\* stands between two cycles, each request it ever collected has had its gate
\* set exactly once.
C1_EveryCollectedRequestSignaledOnce ==
  pc = "cycle" => \A r \in dequeued : set_calls[r] = 1

\* C2: when a step of the cycle raised (or the result wait timed out), every
\* member of that batch has the failure text written and its gate set by the
\* time the cycle is over.
C2_FailureFansOutToEveryMember ==
  (failed /\ pc \in {"finally", "cycle"}) =>
     \A r \in Members : flag[r] /\ response[r] = <<ErrorText>>

\* C3: at most one invocation of model.generate is in progress.
C3_GenerateSerialized == gen_active <= 1

\* C3 witness: the result wait timed out and the invocation it waited for is
\* still running in its pool thread, with another request already queued.
C3_TimedOutInvocationStillRunning ==
  /\ variant = "instruction"
  /\ timed_out
  /\ pc = "shutdown"
  /\ gen_active = 1
  /\ request_queue # <<>>

\* C4: no gate is set twice and no request's response is assigned twice.
C4_SignaledAndWrittenAtMostOnce ==
  \A r \in Reqs : set_calls[r] <= 1 /\ response_writes[r] <= 1

\* C5: once future.result(timeout=30) has raised TimeoutError, the worker of
\* inference_instruction goes on by itself, whether or not generate ever
\* returns: it is never left with no step to take.
C5_TimeoutEndsTheCycle ==
  (variant = "instruction" /\ timed_out) => ENABLED InstrWorker


DispatchPcs == {"tokenize", "submit", "result", "shutdown", "decode",
                "d_response", "d_in", "d_out", "d_set"}

\* Neither program configures a maximum member count; the claim is stated for
\* the largest maximum that a run of NumReqs requests can exceed.
MaxBatchSize == NumReqs - 1

\* C6: no batch handed to the tokenizer and to model.generate has more
\* members than the maximum member count.
C6_BatchWithinMaximum == pc \in DispatchPcs => Len(batch) <= MaxBatchSize

\* C7: the tokenizer and generate never get an empty batch; the collection
\* phase always ends at `if batch:`, from where an empty batch starts another
\* cycle and a batch with members is dispatched.
C7_NoEmptyDispatch ==
  [][ /\ pc' \in DispatchPcs => events' # <<>>
      /\ gen_active' > gen_active => inputs # <<>>
      /\ (pc = "if_batch" /\ pc' # pc) =>
            pc' = IF events = <<>> THEN "cycle" ELSE "tokenize"
      /\ (pc \in CollectPcs /\ pc' \notin CollectPcs) => pc' = "if_batch"
    ]_vars

\* C8: a request taken off the queue is in no second batch (it is not on the
\* queue any more and is in events once), and it is not stranded: the worker
\* does not end holding collected members it never dispatched.
C8_EachRequestInExactlyOneBatch ==
  /\ \A i, j \in 1..Len(events) : i # j => events[i] # events[j]
  /\ \A r \in dequeued : \A k \in 1..Len(request_queue) : request_queue[k] # r
  /\ pc = "dead" => events = <<>>

\* C9: in inference_instruction a handler whose wait timed out answers 408 and
\* touches nothing of the queue, the worker or any event; its answer stays the
\* 408 whatever is signaled later; set() on its abandoned gate raises the flag
\* and leaves the worker running; and by the end of the cycle every member of
\* the batch, abandoned or not, has been signaled.
C9_AbandonmentIsSafe ==
  /\ [][ \A r \in Reqs :
           /\ (variant = "instruction" /\ hpc[r] = "wait" /\ hpc'[r] = "done") =>
                 /\ reply'[r].status = 408
                 /\ UNCHANGED << request_queue, workerVars, eventVars, genVars >>
           /\ reply[r].status = 408 => (reply'[r] = reply[r] /\ hpc'[r] = "done")
           /\ (reply[r].status = 408 /\ set_calls'[r] > set_calls[r]) =>
                 (flag'[r] /\ pc' \in {"d_response", "except", "finally"})
       ]_vars
  /\ [](variant = "instruction" /\ pc = "finally" => \A r \in Members : flag[r])

\* C9 witness: two members of one batch, one abandoned by its handler (408)
\* and signaled afterwards, the other answered with 200, and the worker back
\* at the start of a cycle.
C9_LateSignalDiscarded ==
  \E r, q \in Reqs :
    /\ variant = "instruction"
    /\ r # q
    /\ {r, q} \subseteq Members
    /\ reply[r].status = 408
    /\ flag[r]
    /\ reply[q].status = 200
    /\ pc = "cycle"

\* C10: a handler answers once, with 200 only after its gate was set, and it
\* is never left waiting for good: when the worker is done with the cycle that
\* held the request, the waiting handler can return (its gate is set or its
\* wait has a timeout).
C10_HandlerAlwaysAnswers ==
  \A r \in Reqs :
    /\ hpc[r] = "done" => reply[r].status \in {200, 400, 408}
    /\ reply[r].status = 200 => flag[r]
    /\ (hpc[r] = "wait" /\ r \in dequeued /\ pc = "cycle") =>
          ENABLED (\/ Instr_wait_signaled(r)
                   \/ Instr_wait_timeout(r)
                   \/ Chat_wait_signaled(r))

\* C11: an exception raised in a cycle is caught inside that cycle: from the
\* raise on the worker only runs the except clause (and the finally clause of
\* inference_instruction), always has a step to take, and arrives at the start
\* of the next cycle with inference_lock released, so that the cycle after a
\* failed one collects and serves like any other.
C11_WorkerSurvivesFailedCycle ==
  /\ [][ (failed /\ pc' # pc) => pc' \in {"except", "finally", "cycle", "loop_test"}
       ]_vars
  /\ [](failed => /\ pc \in {"except", "finally", "cycle"}
                  /\ ENABLED (InstrWorker \/ ChatWorker))
  /\ [](pc = "cycle" => ~inference_lock)

\* C11 witness: request r was in a cycle that failed (it was collected, is
\* not in the current batch and got no generated text), and request q of a
\* later batch was answered 200 with text from generate.
C11_ServedAfterFailedCycle ==
  \E r, q \in Reqs :
    /\ r \in dequeued
    /\ r \notin Members
    /\ response[r] \in {<<>>, <<ErrorText>>}
    /\ q \in Members
    /\ ~failed
    /\ reply[q].status = 200
    /\ reply[q].generated_text # ErrorText

\* C12: when the worker is back at the start of a cycle after a cycle that
\* dispatched a batch (events still holds that batch), torch.cuda.empty_cache
\* has been called since the dispatch.
C12_CacheEmptiedAfterEveryDispatch ==
  (pc = "cycle" /\ events # <<>>) => empty_cache_calls >= 1

\* C13: a pull on the intake queue never blocks for longer than what is left
\* of the collection window: while request_queue.get is blocked, the time it
\* may still block is at most Window minus the time elapsed since start_time.
C13_PullBlocksWithinWindow ==
  (pc = "get_wait" /\ get_left > 0) => get_left <= Window - elapsed

DistributePcs == {"d_response", "d_in", "d_out", "d_set"}

\* What the decoded output row of request r reads: the words of its own
\* prompt, then the model's answer to that prompt.
OwnOutput(r) ==
  (IF variant = "instruction" THEN InstrPrompt(data[r]) ELSE ChatPrompt(data[r]))
    \o << data[r][Len(data[r])], "!" >>

\* The cycle went through without an exception and its batch is still in
\* events.
CycleSucceeded == pc \in {"finally", "cycle"} /\ ~failed /\ events # <<>>

\* C14: in the success loop the member at position k is given the decoded
\* text of output row k, which is the output for its own prompt, and the gates
\* are set in collection order: at every moment the members already signaled
\* are exactly those before the loop position.
C14_OwnRowInCollectionOrder ==
  /\ pc \in DistributePcs =>
       \A k \in 1..Len(events) :
         /\ k < idx => (flag[events[k]] /\ response[events[k]] = <<OwnOutput(events[k])>>)
         /\ (k = idx /\ pc # "d_response") =>
               response[events[k]] = <<OwnOutput(events[k])>>
         /\ k >= idx => ~flag[events[k]]
  /\ CycleSucceeded =>
       \A k \in 1..Len(events) :
         flag[events[k]] /\ response[events[k]] = <<OwnOutput(events[k])>>

\* C14 witness: a batch of two members went through the success loop and the
\* two were given different texts.
C14_TwoMembersServed ==
  /\ CycleSucceeded
  /\ Len(events) = 2
  /\ flag[events[1]] /\ flag[events[2]]
  /\ response[events[1]] # response[events[2]]

\* The counts of request r are those of its own texts: the raw input it sent
\* and the full decoded string it was given.
OwnCounts(r) ==
  /\ num_input_tokens[r] = TokenCount(data[r])
  /\ num_output_tokens[r] = TokenCount(OwnOutput(r))

\* C15: every member of a batch that went through the success loop has
\* num_input_tokens equal to the token length of its own raw input text and
\* num_output_tokens equal to the token length of its own full decoded output,
\* from the moment each is written; neither is another member's count nor a
\* count over the whole batch.
C15_TokenCountsAreTheMembersOwn ==
  /\ pc \in DistributePcs =>
       \A k \in 1..Len(events) :
         /\ k < idx => OwnCounts(events[k])
         /\ (k = idx /\ pc \in {"d_out", "d_set"}) =>
               num_input_tokens[events[k]] = TokenCount(data[events[k]])
         /\ (k = idx /\ pc = "d_set") => OwnCounts(events[k])
  /\ CycleSucceeded => \A k \in 1..Len(events) : OwnCounts(events[k])

\* C15 witness: a batch of two went through the success loop and the two
\* members hold different counts.
C15_TwoMembersCounted ==
  /\ CycleSucceeded
  /\ Len(events) = 2
  /\ num_input_tokens[events[1]] # num_input_tokens[events[2]]
  /\ num_output_tokens[events[1]] # num_output_tokens[events[2]]
  /\ num_input_tokens[events[1]] > 0 /\ num_input_tokens[events[2]] > 0

Rejected(r) == reply[r].status = 400

\* C16: a request whose input_text is missing or empty is answered 400 with
\* the error "Please provide input_text", and that step touches nothing of the
\* core: the queue, every gate and the worker are unchanged; only a request
\* with a non-empty text goes on to the queue. A rejected request is never
\* queued, collected, written or signaled afterwards.
C16_RejectedLeavesCoreUntouched ==
  /\ [][ \A r \in Reqs :
           (hpc[r] = "new" /\ hpc'[r] # "new") =>
             IF hpc'[r] = "done"
               THEN /\ reply'[r] = [NoReply EXCEPT !.status = 400,
                                        !.error = "Please provide input_text"]
                    /\ UNCHANGED << request_queue, data, eventVars, workerVars,
                                    genVars >>
               ELSE /\ hpc'[r] = "wait"
                    /\ data'[r] # <<>>
                    /\ request_queue' = Append(request_queue, r) ]_vars
  /\ [](\A r \in Reqs :
          Rejected(r) =>
            /\ hpc[r] = "done"
            /\ data[r] = <<>>
            /\ \A k \in 1..Len(request_queue) : request_queue[k] # r
            /\ r \notin dequeued
            /\ ~flag[r] /\ set_calls[r] = 0 /\ response_writes[r] = 0)

\* C16 witness: one request was rejected and another one was served by the
\* core.
C16_RejectedBesideServed ==
  \E r, q \in Reqs : Rejected(r) /\ reply[q].status = 200 /\ set_calls[q] >= 1

\* The two outcomes a member of inference_instruction can be given: the one
\* of the success loop and the one of the except clause.
SuccessOutcome(r) ==
  [NoReply EXCEPT !.status = 200,
                  !.generated_text = ExtractResponse(OwnOutput(r)),
                  !.num_output_tokens = TokenCount(OwnOutput(r)),
                  !.num_input_tokens = TokenCount(data[r])]
FailureOutcome ==
  [NoReply EXCEPT !.status = 200, !.generated_text = ExtractResponse(ErrorText)]

\* C17: in inference_instruction the response and the two counts of a member
\* are not modified once its gate is set, and the text and counts a handler
\* renders after a signaled wait all belong to one outcome: that of the
\* success loop or that of the failure path.
C17_NoTornOutcome ==
  /\ [][ variant = "instruction" =>
           \A r \in Reqs :
             flag[r] => /\ response'[r] = response[r]
                        /\ num_input_tokens'[r] = num_input_tokens[r]
                        /\ num_output_tokens'[r] = num_output_tokens[r] ]_vars
  /\ [](variant = "instruction" =>
          \A r \in Reqs :
            reply[r].status = 200 => reply[r] \in {SuccessOutcome(r), FailureOutcome})

\* C18: in inference_instruction the timeout handed to request_queue.get is
\* never negative when the call is made, so the worker thread never ends in
\* the collection loop and no collected member is left with a dead worker.
C18_CollectionTimeoutNonNegative ==
  variant = "instruction" =>
    /\ pc = "get_call" => INFER_TIMEOUT - elapsed >= 0
    /\ pc # "dead"

\* C19: in inference_instruction a member of a failed batch that is answered
\* 200 is answered with the text "Error occurred during processing" and both
\* counts 0, never with generated text or a non-zero count.
C19_FailedBatchYieldsErrorOutcome ==
  (variant = "instruction" /\ failed) =>
    \A r \in Members : reply[r].status = 200 => reply[r] = FailureOutcome

RegistrationPhase == {"register", "sleep"}

\* Nothing of the service runs: no heartbeat, no worker thread, no server.
NothingStarted ==
  /\ ~HeartbeatStarted
  /\ pc = "unstarted"
  /\ boot # "serving"
  /\ ~ENABLED send_heartbeat
  /\ ~ENABLED (Handler \/ InstrWorker \/ ChatWorker)

\* C20: registration is attempted at most max_retries times, every failed
\* attempt is followed by the full fixed backoff, and the first successful
\* attempt ends the loop for good; when all attempts have failed, startup ends
\* with an error and the heartbeat thread, the worker thread and the server
\* are never started. They are started only after a successful attempt.
C20_RegistrationRetriedThenStartupFails ==
  /\ [](boot \in RegistrationPhase => attempt < max_retries /\ NothingStarted)
  /\ [][ /\ (boot = "register" /\ boot' # "register") =>
              \/ boot' = "sleep" /\ sleep_left' = RetryBackoff /\ attempt' = attempt
              \/ boot' = "heartbeat"
         /\ (boot = "sleep" /\ boot' # "sleep") =>
              /\ sleep_left = 0
              /\ attempt' = attempt + 1
              /\ boot' = IF attempt' < max_retries THEN "register" ELSE "raised"
         /\ boot \notin RegistrationPhase => boot' \notin RegistrationPhase
         /\ boot' = "heartbeat" => boot = "register" ]_vars
  /\ [](boot = "raised" =>
          /\ attempt = max_retries
          /\ NothingStarted
          /\ ~ENABLED Next)

\* C20 witness: all max_retries attempts have failed and startup has ended
\* with the error.
C20_AllAttemptsFailed == boot = "raised" /\ attempt = max_retries /\ pc = "unstarted"

====
